---- MODULE Spec2Model ----
(***************************************************************************)
(* nb_cli/handlers/store.py                                                *)
(*                                                                         *)
(*   load_module_data       races three mirror requests through            *)
(*                          asyncio.as_completed and returns the first     *)
(*                          response that decodes and parses, behind       *)
(*                          @cache(ttl=None)                                *)
(*   format_package_results pads labels to a column and wraps descriptions *)
(*                          by display width (wcswidth)                     *)
(***************************************************************************)
EXTENDS Integers, Sequences, FiniteSets, TLC

VARIABLES
    cache,          \* the memoizing layer behind @cache(ttl=None): module_type -> entry
    pc,             \* position of the current load_module_data call
    cache_hit,      \* the current call was answered by the cache, its body did not run
    module_type,    \* argument of the current call
    module_class,   \* class picked by lines 69-78
    tasks,          \* mirror -> the asyncio task wrapping _request(url)
    completed,      \* mirrors in the order their tasks completed (as_completed's queue)
    taken,          \* number of futures the for loop has awaited
    exceptions,     \* the local list `exceptions`
    result,         \* value returned to the caller
    error,          \* exception raised to the caller
    requests,       \* number of mirror requests started since process start
    calls,          \* number of calls made since process start
    hits,           \* argument `hits` of format_package_results
    arg_name_column_width,  \* argument name_column_width as passed (None or an int)
    arg_terminal_width,     \* argument terminal_width as passed (None or an int)
    rpc,            \* position in format_package_results
    name_column_width,      \* the local after lines 115-118
    terminal_width,         \* the local after lines 119-120
    terminal_queries,       \* number of calls of shutil.get_terminal_size
    hit_index,      \* position of the for loop of line 123 in hits
    target_width,   \* line 126
    summary,        \* the local `summary`
    summary_lines,  \* the local `summary_lines`
    tmp_length,     \* the local `tmp_length`
    lines,          \* the local `lines`
    output          \* the string returned

fetch_vars == <<cache, pc, cache_hit, module_type, module_class, tasks, completed,
                taken, exceptions, result, error, requests, calls>>

render_vars == <<hits, arg_name_column_width, arg_terminal_width, rpc, name_column_width,
                 terminal_width, terminal_queries, hit_index, target_width, summary,
                 summary_lines, tmp_length, lines, output>>

vars == <<fetch_vars, render_vars>>

-----------------------------------------------------------------------------
(* Bounds *)

MaxCalls == 2       \* sequential calls of load_module_data in one process
MaxItems == 2       \* elements of a JSON array body
MaxKeys == 1        \* keys of a JSON object body
MaxRun == 12        \* length of a run of equal characters in a description
MaxHits == 2        \* records in one call of format_package_results

-----------------------------------------------------------------------------
(* Data *)

Mirrors == 1..3     \* positions in the list `urls`

ModuleTypes == {"adapter", "plugin", "driver"}

Arguments == ModuleTypes \cup {"bogus"}

Adapter == "Adapter"
Plugin == "Plugin"
Driver == "Driver"

NoClass == "none"

RECURSIVE SeqsUpTo(_, _)
SeqsUpTo(S, n) ==
    IF n = 0 THEN {<<>>}
    ELSE LET shorter == SeqsUpTo(S, n - 1)
         IN  shorter \cup {Append(s, x) : s \in {t \in shorter : Len(t) = n - 1}, x \in S}

\* An element of a JSON array: an object matching the SimpleInfo fields, or anything else.
Items == [valid : BOOLEAN, name : {"n"}]

KeyItem == [valid |-> FALSE, name |-> "key"]

\* A response body: not JSON at all, or a JSON value.
Bodies ==
    {[t |-> "invalid", items |-> <<>>], [t |-> "scalar", items |-> <<>>]}
    \cup {[t |-> "object", items |-> [i \in 1..k |-> KeyItem]] : k \in 0..MaxKeys}
    \cup {[t |-> "array", items |-> s] : s \in SeqsUpTo(Items, MaxItems)}

\* The bodies a non-2xx response is given here: an error page that is not JSON, or a
\* JSON value of at most one element (the code never reads the status, lines 88-97)
ErrorBodies == {b \in Bodies : b.t = "invalid" \/ (b.t # "scalar" /\ Len(b.items) <= 1)}

NoBody == [t |-> "none", items |-> <<>>]

\* What `await client.get(url)` ends with: an httpx exception or a Response.
Outcomes ==
    {[kind |-> "error", status |-> 0, body |-> NoBody]}
    \cup {[kind |-> "response", status |-> 200, body |-> b] : b \in Bodies}
    \cup {[kind |-> "response", status |-> 404, body |-> b] : b \in ErrorBodies}

NoOutcome == [kind |-> "none", status |-> 0, body |-> NoBody]

Pending == [state |-> "pending", outcome |-> NoOutcome]

NoEntry == [hit |-> FALSE, value |-> <<>>]

NoError == [type |-> "none", causes |-> <<>>]

\* Optional[int]
None == [given |-> FALSE, value |-> 0]

Some(v) == [given |-> TRUE, value |-> v]

-----------------------------------------------------------------------------
(* Pure steps of load_module_data *)

Ok(v) == [ok |-> TRUE, value |-> v, exc |-> "none"]

Raise(e) == [ok |-> FALSE, value |-> <<>>, exc |-> e]

\* Mutant of ClassOf: the else branch falls back to a class instead of raising
ClassOf_default(mt) ==
    CASE mt = "plugin" -> Plugin
      [] mt = "driver" -> Driver
      [] OTHER -> Adapter

\* lines 69-78
ClassOf(mt) ==
    CASE mt = "adapter" -> Adapter
      [] mt = "plugin" -> Plugin
      [] mt = "driver" -> Driver
      [] OTHER -> NoClass

\* Mutant of parse_obj: every element is parsed as an Adapter
parse_obj_as_adapter(cls, item) ==
    IF item.valid THEN Ok([cls |-> Adapter, name |-> item.name]) ELSE Raise("ValidationError")

\* module_class.parse_obj(item)
parse_obj(cls, item) ==
    IF item.valid THEN Ok([cls |-> cls, name |-> item.name]) ELSE Raise("ValidationError")

\* Mutant of parse_all: an element that does not parse is skipped
RECURSIVE parse_all_skipping(_, _)
parse_all_skipping(cls, items) ==
    IF items = <<>> THEN Ok(<<>>)
    ELSE LET head == parse_obj(cls, Head(items))
             rest == parse_all_skipping(cls, Tail(items))
         IN  IF ~head.ok THEN rest ELSE Ok(<<head.value>> \o rest.value)

\* [module_class.parse_obj(item) for item in items]: stops at the first element that raises
RECURSIVE parse_all(_, _)
parse_all(cls, items) ==
    IF items = <<>> THEN Ok(<<>>)
    ELSE LET head == parse_obj(cls, Head(items))
             rest == parse_all(cls, Tail(items))
         IN  IF ~head.ok THEN head
             ELSE IF ~rest.ok THEN rest
             ELSE Ok(<<head.value>> \o rest.value)

\* resp.json(): httpx decodes the body whatever the status code is
json(resp) ==
    IF resp.body.t = "invalid" THEN Raise("JSONDecodeError") ELSE Ok(resp.body)

\* `for item in items`: a list yields its elements, a dict its keys, a scalar raises
iterate(value) ==
    IF value.t = "scalar" THEN Raise("TypeError") ELSE Ok(value.items)

\* The try block, lines 95-97, on the outcome of one task
try_body(cls, outcome) ==
    IF outcome.kind = "error" THEN Raise("RequestError")
    ELSE LET items == json(outcome)
         IN  IF ~items.ok THEN items
             ELSE LET it == iterate(items.value)
                  IN  IF ~it.ok THEN it ELSE parse_all(cls, it.value)

\* Mutant of next_future: the first completed task is handed out again and again
next_future_again(done, n) ==
    IF done # <<>> THEN {done[1]} ELSE {}

\* Mutant of next_future: the tasks are awaited in the order of the list `urls`
next_future_in_list_order(done, n) ==
    IF \E i \in 1..Len(done) : done[i] = n + 1 THEN {n + 1} ELSE {}

\* as_completed(tasks): the next future is the next task in completion order
next_future(done, n) ==
    IF n < Len(done) THEN {done[n + 1]} ELSE {}

\* Mutant of record_exception: the list is overwritten with the last exception
record_exception_last(excs, e) == <<e>>

\* exceptions.append(e), line 99
record_exception(excs, e) == Append(excs, e)

\* Mutant of exhausted: the aggregate is raised at the first failure
exhausted_at_first(n) == n >= 1

\* The for loop ends when as_completed has yielded one future per task
exhausted(n) == n = Cardinality(Mirrors)

\* The memoizing layer: the entry stored under the call's argument, if any
cache_get(c, mt) == c[mt]

\* The memoizing layer: store a returned value under the call's argument, for ever
cache_set(c, mt, v) == [c EXCEPT ![mt] = [hit |-> TRUE, value |-> v]]

-----------------------------------------------------------------------------
(* Operations *)

\* No call of load_module_data was made yet
FetchIdle ==
    /\ cache = [mt \in Arguments |-> NoEntry]
    /\ pc = "idle"
    /\ cache_hit = FALSE
    /\ module_type = "none"
    /\ module_class = NoClass
    /\ tasks = [m \in Mirrors |-> [state |-> "none", outcome |-> NoOutcome]]
    /\ completed = <<>>
    /\ taken = 0
    /\ exceptions = <<>>
    /\ result = <<>>
    /\ error = NoError
    /\ requests = 0
    /\ calls = 0

\* format_package_results is not called
RenderIdle ==
    /\ hits = <<>>
    /\ arg_name_column_width = None
    /\ arg_terminal_width = None
    /\ rpc = "idle"
    /\ name_column_width = 0
    /\ terminal_width = 0
    /\ terminal_queries = 0
    /\ hit_index = 0
    /\ target_width = 0
    /\ summary = <<>>
    /\ summary_lines = <<>>
    /\ tmp_length = 0
    /\ lines = <<>>
    /\ output = <<>>

Init == FetchIdle /\ RenderIdle

\* Mutant of load_module_data: the function without its @cache decorator
load_module_data_undecorated(mt) ==
    /\ pc \in {"idle", "returned", "raised"}
    /\ calls < MaxCalls
    /\ calls' = calls + 1
    /\ module_type' = mt
    /\ cache_hit' = FALSE
    /\ result' = <<>>
    /\ module_class' = ClassOf(mt)
    /\ IF ClassOf(mt) = NoClass
       THEN /\ pc' = "raised"
            /\ error' = [type |-> "ValueError", causes |-> <<>>]
            /\ UNCHANGED <<cache, tasks, completed, taken, exceptions, requests>>
       ELSE /\ pc' = "running"
            /\ error' = NoError
            /\ exceptions' = <<>>
            /\ tasks' = [m \in Mirrors |-> Pending]
            /\ completed' = <<>>
            /\ taken' = 0
            /\ requests' = requests + Cardinality(Mirrors)
            /\ UNCHANGED cache
    /\ UNCHANGED render_vars

\* A call, from the cache lookup to the first `await future` (lines 65-95)
load_module_data(mt) ==
    /\ pc \in {"idle", "returned", "raised"}
    /\ calls < MaxCalls
    /\ calls' = calls + 1
    /\ module_type' = mt
    /\ IF cache_get(cache, mt).hit
       THEN /\ cache_hit' = TRUE
            /\ pc' = "returned"
            /\ result' = cache_get(cache, mt).value
            /\ error' = NoError
            /\ UNCHANGED <<cache, module_class, tasks, completed, taken, exceptions,
                           requests>>
       ELSE IF ClassOf(mt) = NoClass
       THEN /\ cache_hit' = FALSE
            /\ pc' = "raised"
            /\ result' = <<>>
            /\ error' = [type |-> "ValueError", causes |-> <<>>]
            /\ module_class' = NoClass
            /\ UNCHANGED <<cache, tasks, completed, taken, exceptions, requests>>
       ELSE /\ cache_hit' = FALSE
            /\ pc' = "running"
            /\ result' = <<>>
            /\ error' = NoError
            /\ module_class' = ClassOf(mt)
            /\ exceptions' = <<>>
            /\ tasks' = [m \in Mirrors |-> Pending]
            /\ completed' = <<>>
            /\ taken' = 0
            /\ requests' = requests + Cardinality(Mirrors)
            /\ UNCHANGED cache
    /\ UNCHANGED render_vars

\* One task finishes `_request(url)` (lines 88-90); it may do so after the call returned
request_done(m, o) ==
    /\ tasks[m].state = "pending"
    /\ tasks' = [tasks EXCEPT ![m] = [state |-> "done", outcome |-> o]]
    /\ completed' = Append(completed, m)
    /\ UNCHANGED <<cache, pc, cache_hit, module_type, module_class, taken, exceptions,
                   result, error, requests, calls>>
    /\ UNCHANGED render_vars

\* Mutant of await_future: a success is stored and the loop goes on to the next future
await_future_no_return ==
    /\ pc \in {"running", "returned"}
    /\ ~cache_hit
    /\ \E m \in next_future(completed, taken) :
         LET r == try_body(module_class, tasks[m].outcome)
             excs == record_exception(exceptions, [mirror |-> m, type |-> r.exc])
         IN  /\ tasks[m].state = "done"
             /\ taken' = taken + 1
             /\ IF r.ok
                THEN /\ pc' = "returned"
                     /\ result' = r.value
                     /\ cache' = cache_set(cache, module_type, r.value)
                     /\ UNCHANGED <<exceptions, error>>
                ELSE /\ exceptions' = excs
                     /\ IF exhausted(taken + 1) /\ pc = "running"
                        THEN /\ pc' = "raised"
                             /\ error' = [type |-> "ModuleLoadFailed", causes |-> excs]
                        ELSE UNCHANGED <<pc, error>>
                     /\ UNCHANGED <<cache, result>>
    /\ UNCHANGED <<cache_hit, module_type, module_class, tasks, completed, requests, calls>>
    /\ UNCHANGED render_vars

\* One iteration of the for loop (lines 93-99), and lines 101-104 when it was the last
await_future ==
    /\ pc = "running"
    /\ \E m \in next_future(completed, taken) :
         LET r == try_body(module_class, tasks[m].outcome)
             excs == record_exception(exceptions, [mirror |-> m, type |-> r.exc])
         IN  /\ tasks[m].state = "done"
             /\ taken' = taken + 1
             /\ IF r.ok
                THEN /\ pc' = "returned"
                     /\ result' = r.value
                     /\ cache' = cache_set(cache, module_type, r.value)
                     /\ UNCHANGED <<exceptions, error>>
                ELSE /\ exceptions' = excs
                     /\ IF exhausted(taken + 1)
                        THEN /\ pc' = "raised"
                             /\ error' = [type |-> "ModuleLoadFailed", causes |-> excs]
                        ELSE UNCHANGED <<pc, error>>
                     /\ UNCHANGED <<cache, result>>
    /\ UNCHANGED <<cache_hit, module_type, module_class, tasks, completed, requests, calls>>
    /\ UNCHANGED render_vars

\* One call in a fresh process, every outcome of every mirror
Next ==
    \/ \E mt \in Arguments : pc = "idle" /\ load_module_data(mt)
    \/ \E m \in Mirrors, o \in Outcomes : request_done(m, o)
    \/ await_future

Spec == Init /\ [][Next]_vars

\* Sequential calls in one process, a mirror answering with an error or a valid array
CacheOutcomes ==
    {o \in Outcomes :
        \/ o.kind = "error"
        \/ /\ o.status = 200
           /\ o.body.t = "array"
           /\ \A i \in 1..Len(o.body.items) : o.body.items[i].valid}

NextCache ==
    \/ \E mt \in Arguments : load_module_data(mt)
    \/ \E m \in Mirrors, o \in CacheOutcomes : request_done(m, o)
    \/ await_future

SpecCache == Init /\ [][NextCache]_vars

\* One call whose mirrors answer with an error or with a body of at most one element
LiveOutcomes ==
    {o \in Outcomes : o.kind = "error" \/ (o.status = 200 /\ Len(o.body.items) <= 1)}

request_completes == \E m \in Mirrors, o \in LiveOutcomes : request_done(m, o)

NextLive ==
    \/ \E mt \in Arguments : pc = "idle" /\ load_module_data(mt)
    \/ request_completes
    \/ await_future

\* Every request ends (with a response, an error or httpx's timeout), and the event loop
\* resumes the coroutine when the future it awaits is done
SpecLive ==
    Init /\ [][NextLive]_vars /\ WF_vars(request_completes) /\ WF_vars(await_future)

-----------------------------------------------------------------------------
(* format_package_results: strings are sequences of characters *)

NL == "\n"

ColumnGap == 4      \* line 117: the computed column is the widest label plus 4
Margin == 5         \* line 126
WrapThreshold == 10 \* line 127
Indent == 3         \* line 137

\* wcwidth: columns of one character; "z" is a zero-width (combining) character, "W"
\* an East-Asian wide one, a control character has no width (-1)
wcwidth(c) ==
    CASE c = "z" -> 0
      [] c = "W" -> 2
      [] c = NL -> -1
      [] OTHER -> 1

\* wcswidth: the sum of the widths, or -1 as soon as one character has none
RECURSIVE wcswidth(_)
wcswidth(s) ==
    IF s = <<>> THEN 0
    ELSE LET w == wcwidth(Head(s))
             r == wcswidth(Tail(s))
         IN  IF w < 0 \/ r < 0 THEN -1 ELSE w + r

Min(a, b) == IF a < b THEN a ELSE b

Max(a, b) == IF a > b THEN a ELSE b

\* s[:n], with Python's clamping and negative indices
py_head(s, n) ==
    IF n >= 0 THEN SubSeq(s, 1, Min(n, Len(s))) ELSE SubSeq(s, 1, Max(Len(s) + n, 0))

\* Mutant of py_tail: the remainder starts one character too far
py_tail_skipping(s, n) == SubSeq(s, Min(Max(n, 0), Len(s)) + 2, Len(s))

\* s[n:]
py_tail(s, n) ==
    IF n >= 0 THEN SubSeq(s, Min(n, Len(s)) + 1, Len(s))
    ELSE SubSeq(s, Max(Len(s) + n, 0) + 1, Len(s))

\* " " * n, empty when n <= 0
spaces(n) == [k \in 1..n |-> " "]

\* sep.join(parts)
RECURSIVE join(_, _)
join(sep, parts) ==
    IF parts = <<>> THEN <<>>
    ELSE IF Len(parts) = 1 THEN parts[1]
    ELSE parts[1] \o sep \o join(sep, Tail(parts))

\* f"{hit.name} ({hit.project_link})"
label(hit) == hit.name \o <<" ", "(">> \o hit.project_link \o <<")">>

\* lines 116-118
computed_column_width(hs) ==
    LET widths == {wcswidth(label(hs[k])) : k \in 1..Len(hs)}
    IN  (CHOOSE w \in widths : \A v \in widths : v <= w) + ColumnGap

\* Mutant of padding: the label is padded by its character count
padding_by_len(name, width) == spaces(width - Len(name))

\* ' ' * (name_column_width - wcswidth(name)), line 139
padding(name, width) == spaces(width - wcswidth(name))

\* Mutant of format_line: a label wider than the column is cut to the column
format_line_truncating(name, width, text) ==
    py_head(name, Max(width, 0)) \o padding(name, width) \o <<" ", "-", " ">> \o text

\* line 139
format_line(name, width, text) == name \o padding(name, width) \o <<" ", "-", " ">> \o text

\* Mutant of overflows: a prefix that fills the width exactly is trimmed too
overflows_or_fills(s, width) == wcswidth(s) >= width

\* the conditions of the while loops, lines 130 and 132
overflows(s, width) == wcswidth(s) > width

\* Mutant of wraps: the description is wrapped whatever the width is
wraps_always(width) == TRUE

\* Mutant of wraps: a width of exactly 10 wraps too
wraps_from_threshold(width) == width >= WrapThreshold

\* the condition of line 127
wraps(width) == width > WrapThreshold

\* Mutant of join_wrapped: the continuation lines are indented to the name column
join_wrapped_under_name(parts, width) == join(<<NL>> \o spaces(width), parts)

\* line 137
join_wrapped(parts, width) == join(<<NL>> \o spaces(width + Indent), parts)

Run(c, n) == [k \in 1..n |-> c]

Names == {<<"a">>, <<"W">>, <<"a", "a">>}

Links == {<<"x">>}

\* Descriptions of two runs of zero-, single- and double-column characters
LongDescs ==
    {Run(c1, n1) \o Run(c2, n2) : c1 \in {"z", "a", "W"}, c2 \in {"z", "a", "W"},
                                   n1 \in 0..MaxRun, n2 \in 0..MaxRun}

ShortDescs == {<<>>, <<"a", "W">>, <<"a", NL, "a">>, Run("a", MaxRun)}

Records(N, D) == [name : N, project_link : Links, desc : D]

HitsSet ==
    SeqsUpTo(Records(Names, ShortDescs), MaxHits)
    \cup {<<r>> : r \in Records({<<"a">>}, LongDescs)}

NameColumnWidths == {5, 9}

TerminalWidths == {14, 24, 25, 26}

\* What shutil.get_terminal_size()[0] may answer
TerminalSizes == {24, 26}

\* The call is made with some arguments
RenderInit ==
    /\ hits \in HitsSet
    /\ arg_name_column_width \in {None} \cup {Some(w) : w \in NameColumnWidths}
    /\ arg_terminal_width \in {None} \cup {Some(w) : w \in TerminalWidths}
    /\ rpc = "call"
    /\ name_column_width = 0
    /\ terminal_width = 0
    /\ terminal_queries = 0
    /\ hit_index = 0
    /\ target_width = 0
    /\ summary = <<>>
    /\ summary_lines = <<>>
    /\ tmp_length = 0
    /\ lines = <<>>
    /\ output = <<>>

\* Mutant of format_package_results: the empty case is tested after the terminal width
\* was resolved
format_package_results_late_check ==
    /\ rpc = "call"
    /\ IF arg_terminal_width.given
       THEN /\ terminal_width' = arg_terminal_width.value
            /\ UNCHANGED terminal_queries
       ELSE /\ terminal_width' \in TerminalSizes
            /\ terminal_queries' = terminal_queries + 1
    /\ IF hits = <<>>
       THEN /\ rpc' = "done"
            /\ output' = <<>>
            /\ UNCHANGED <<name_column_width, hit_index, lines>>
       ELSE /\ name_column_width' =
                 IF arg_name_column_width.given THEN arg_name_column_width.value
                 ELSE computed_column_width(hits)
            /\ lines' = <<>>
            /\ hit_index' = 1
            /\ rpc' = "hit"
            /\ UNCHANGED output
    /\ UNCHANGED <<hits, arg_name_column_width, arg_terminal_width, target_width, summary,
                   summary_lines, tmp_length>>
    /\ UNCHANGED fetch_vars

\* lines 112-122: the empty case and the resolution of the two widths
format_package_results ==
    /\ rpc = "call"
    /\ IF hits = <<>>
       THEN /\ rpc' = "done"
            /\ output' = <<>>
            /\ UNCHANGED <<name_column_width, terminal_width, terminal_queries, hit_index,
                           lines>>
       ELSE /\ name_column_width' =
                 IF arg_name_column_width.given THEN arg_name_column_width.value
                 ELSE computed_column_width(hits)
            /\ IF arg_terminal_width.given
               THEN /\ terminal_width' = arg_terminal_width.value
                    /\ UNCHANGED terminal_queries
               ELSE /\ terminal_width' \in TerminalSizes
                    /\ terminal_queries' = terminal_queries + 1
            /\ lines' = <<>>
            /\ hit_index' = 1
            /\ rpc' = "hit"
            /\ UNCHANGED output
    /\ UNCHANGED <<hits, arg_name_column_width, arg_terminal_width, target_width, summary,
                   summary_lines, tmp_length>>
    /\ UNCHANGED fetch_vars

\* line 139 and the end of the for loop body; after the last hit, line 141
finish_hit(text) ==
    /\ lines' = Append(lines, format_line(label(hits[hit_index]), name_column_width, text))
    /\ IF hit_index < Len(hits)
       THEN /\ hit_index' = hit_index + 1
            /\ rpc' = "hit"
            /\ UNCHANGED output
       ELSE /\ rpc' = "done"
            /\ output' = join(<<NL>>, lines')
            /\ UNCHANGED hit_index

\* lines 124-129 for the next hit, and line 139 when the description is not wrapped
begin_hit ==
    /\ rpc = "hit"
    /\ target_width' = terminal_width - name_column_width - Margin
    /\ IF wraps(target_width')
       THEN /\ summary' = hits[hit_index].desc
            /\ summary_lines' = <<>>
            /\ rpc' = "wrap"
            /\ UNCHANGED <<lines, hit_index, output>>
       ELSE /\ summary' = hits[hit_index].desc
            /\ finish_hit(summary')
            /\ UNCHANGED summary_lines
    /\ UNCHANGED <<hits, arg_name_column_width, arg_terminal_width, name_column_width,
                   terminal_width, terminal_queries, tmp_length>>
    /\ UNCHANGED fetch_vars

\* the test of the outer while, line 130: lines 131 or lines 136-139
wrap_test ==
    /\ rpc = "wrap"
    /\ IF overflows(summary, target_width)
       THEN /\ tmp_length' = target_width
            /\ rpc' = "trim"
            /\ UNCHANGED <<summary, summary_lines, lines, hit_index, output>>
       ELSE /\ summary_lines' = Append(summary_lines, summary)
            /\ summary' = join_wrapped(summary_lines', name_column_width)
            /\ finish_hit(summary')
            /\ UNCHANGED tmp_length
    /\ UNCHANGED <<hits, arg_name_column_width, arg_terminal_width, name_column_width,
                   terminal_width, terminal_queries, target_width>>
    /\ UNCHANGED fetch_vars

\* the test of the inner while, line 132: line 133 or lines 134-135
trim_test ==
    /\ rpc = "trim"
    /\ IF overflows(py_head(summary, tmp_length), target_width)
       THEN /\ tmp_length' = tmp_length - 1
            /\ UNCHANGED <<summary, summary_lines, rpc>>
       ELSE /\ summary_lines' = Append(summary_lines, py_head(summary, tmp_length))
            /\ summary' = py_tail(summary, tmp_length)
            /\ rpc' = "wrap"
            /\ UNCHANGED tmp_length
    /\ UNCHANGED <<hits, arg_name_column_width, arg_terminal_width, name_column_width,
                   terminal_width, terminal_queries, hit_index, target_width, lines, output>>
    /\ UNCHANGED fetch_vars

NextRender ==
    \/ format_package_results
    \/ begin_hit
    \/ wrap_test
    \/ trim_test

InitRender == FetchIdle /\ RenderInit

\* One call of format_package_results on each of the inputs
SpecRender == InitRender /\ [][NextRender]_vars

-----------------------------------------------------------------------------
(* Vocabulary of the properties of load_module_data *)

Done(m) == tasks[m].state = "done"

\* The body of the call ran and the call is over
Ran == pc \in {"returned", "raised"} /\ ~cache_hit /\ module_type \in ModuleTypes

\* The body is a JSON array whose every element matches the schema of the variants
ValidArray(o) ==
    /\ o.kind = "response"
    /\ o.body.t = "array"
    /\ \A i \in 1..Len(o.body.items) : o.body.items[i].valid

\* The records a valid array stands for
RecordsOf(cls, items) == [i \in 1..Len(items) |-> [cls |-> cls, name |-> items[i].name]]

\* The mirror fails: the request raised, the body is not JSON, the JSON value cannot be
\* iterated, or one of the elements it yields does not parse
Unparseable(o) ==
    \/ o.kind = "error"
    \/ o.body.t \in {"invalid", "scalar"}
    \/ \E i \in 1..Len(o.body.items) : ~o.body.items[i].valid

\* The mirror whose response the call returned
Winner == completed[taken]

Success == pc = "returned" /\ ~cache_hit

Aggregate == pc = "raised" /\ error.type = "ModuleLoadFailed"

-----------------------------------------------------------------------------
(* C1: whenever a mirror answers with a valid JSON array, the call succeeds and
   returns the records of a mirror that answered with a valid JSON array, in every
   completion order and whatever the other mirrors do. *)
C1_ValidMirrorDecides ==
    (Ran /\ \E m \in Mirrors : Done(m) /\ ValidArray(tasks[m].outcome))
        => /\ pc = "returned"
           /\ \E m \in Mirrors :
                /\ Done(m)
                /\ ValidArray(tasks[m].outcome)
                /\ result = RecordsOf(ClassOf(module_type), tasks[m].outcome.body.items)

(* C2: when all three mirrors fail, the call raises ModuleLoadFailed with exactly
   three causes, one per mirror. *)
C2_ThreeCauses ==
    (Ran /\ \A m \in Mirrors : Done(m) /\ Unparseable(tasks[m].outcome))
        => /\ Aggregate
           /\ Len(error.causes) = Cardinality(Mirrors)
           /\ \A m \in Mirrors :
                Cardinality({i \in 1..Len(error.causes) : error.causes[i].mirror = m}) = 1

C2_Witness ==
    /\ Aggregate
    /\ completed = <<3, 1, 2>>
    /\ tasks[3].outcome.kind = "error"
    /\ tasks[1].outcome.body.t = "invalid"
    /\ tasks[2].outcome.body.t = "array"

(* C3: the call returns the response of the mirror that completed earliest among
   the mirrors whose response parses, whatever its position in the list of URLs. *)
C3_EarliestParsedWins ==
    Success =>
        /\ taken \in 1..Len(completed)
        /\ ~Unparseable(tasks[Winner].outcome)
        /\ result = RecordsOf(ClassOf(module_type), tasks[Winner].outcome.body.items)
        /\ \A i \in 1..Len(completed) :
             ~Unparseable(tasks[completed[i]].outcome) => taken <= i

C3_Witness ==
    /\ Success
    /\ completed = <<3, 1, 2>>
    /\ Winner = 3
    /\ ValidArray(tasks[1].outcome)
    /\ tasks[1].outcome.body # tasks[3].outcome.body

(* C4: a call with an unrecognized category raises the invalid-category error, not
   the aggregate, and starts no mirror request. *)
C4_InvalidCategoryNoRequest ==
    [][(calls' = calls + 1 /\ module_type' \notin ModuleTypes)
          => /\ pc' = "raised"
             /\ error' = [type |-> "ValueError", causes |-> <<>>]
             /\ requests' = requests
             /\ tasks' = tasks]_vars

C4_Witness ==
    /\ pc = "raised"
    /\ module_type = "bogus"
    /\ error.type = "ValueError"
    /\ calls = 2
    /\ requests = 3

(* C5: once a call for a category has succeeded, every later call for that category
   returns the same data and starts no mirror request; a call for a category that
   has no entry runs its requests. *)
C5_CacheIdempotent ==
    [][/\ \A mt \in ModuleTypes :
            cache[mt].hit =>
                /\ cache'[mt] = cache[mt]
                /\ (calls' = calls + 1 /\ module_type' = mt)
                      => /\ pc' = "returned"
                         /\ result' = cache[mt].value
                         /\ requests' = requests
       /\ (pc = "running" /\ pc' = "returned")
             => cache'[module_type] = [hit |-> TRUE, value |-> result']
       /\ (calls' = calls + 1 /\ module_type' \in ModuleTypes /\ ~cache[module_type'].hit)
             => /\ pc' = "running"
                /\ requests' = requests + Cardinality(Mirrors)]_vars

C5_Witness ==
    /\ pc = "returned"
    /\ cache_hit
    /\ calls = 2
    /\ requests = 3
    /\ result # <<>>

(* C6: a call for a recognized category ends with a list of records or with the
   aggregate raised after all mirrors were processed; the error of one mirror is
   never the outcome, and errors recorded before a success are not surfaced. *)
C6_OnlyResultOrAggregate ==
    Ran =>
        \/ /\ pc = "returned"
           /\ error = NoError
           /\ \A i \in 1..Len(result) : result[i].cls = ClassOf(module_type)
        \/ /\ Aggregate
           /\ taken = Cardinality(Mirrors)
           /\ \A m \in Mirrors : Done(m) /\ Unparseable(tasks[m].outcome)
           /\ error.causes = exceptions

C6_Witness ==
    /\ Success
    /\ Len(exceptions) = 2
    /\ error = NoError
    /\ result # <<>>

(* C7: a mirror that answers with a non-2xx status is a failed mirror: its error is
   recorded and its body is never the source of a successful result. *)
C7_Non2xxFails ==
    /\ Success => tasks[Winner].outcome.status \in 200..299
    /\ (pc \in {"running", "returned", "raised"} /\ ~cache_hit) =>
          \A i \in 1..taken :
             tasks[completed[i]].outcome.status \notin 200..299
                => \E j \in 1..Len(exceptions) : exceptions[j].mirror = completed[i]

(* C8: one element that does not parse invalidates the whole response of its mirror:
   no partial list is returned, one error is recorded for the mirror and the call
   goes on to the remaining mirrors. *)
C8_BadElementFailsMirror ==
    (pc \in {"running", "returned", "raised"} /\ ~cache_hit) =>
        \A i \in 1..taken :
            LET m == completed[i]
                o == tasks[m].outcome
            IN  (o.kind = "response" /\ o.body.t = "array"
                 /\ \E k \in 1..Len(o.body.items) : ~o.body.items[k].valid)
                   => /\ Cardinality({j \in 1..Len(exceptions) : exceptions[j].mirror = m}) = 1
                      /\ ~(pc = "returned" /\ i = taken)
                      /\ (i = taken /\ i < Cardinality(Mirrors)) => pc = "running"

C8_Witness ==
    /\ Success
    /\ taken = 2
    /\ tasks[completed[1]].outcome.body.t = "array"
    /\ Len(tasks[completed[1]].outcome.body.items) = 2
    /\ tasks[completed[1]].outcome.body.items[1].valid
    /\ ~tasks[completed[1]].outcome.body.items[2].valid
    /\ result # <<>>

-----------------------------------------------------------------------------
(* Vocabulary of the properties of format_package_results *)

\* The pieces of s between the line breaks
RECURSIVE split_lines(_, _)
split_lines(s, acc) ==
    IF s = <<>> THEN <<acc>>
    ELSE IF Head(s) = NL THEN <<acc>> \o split_lines(Tail(s), <<>>)
    ELSE split_lines(Tail(s), Append(acc, Head(s)))

OutputLines == IF output = <<>> THEN <<>> ELSE split_lines(output, <<>>)

IsPrefix(p, s) == Len(p) <= Len(s) /\ SubSeq(s, 1, Len(p)) = p

\* Where " - " starts in a line: the number of characters before it
SeparatorAt(line) ==
    {k \in 0..(Len(line) - 3) : SubSeq(line, k + 1, k + 3) = <<" ", "-", " ">>}

FirstSeparator(line) == CHOOSE k \in SeparatorAt(line) : \A j \in SeparatorAt(line) : k <= j

\* The display column at which the separator of a line begins
SeparatorColumn(line) == wcswidth(SubSeq(line, 1, FirstSeparator(line)))

\* terminalWidth - nameColumnWidth - 5, from the resolved widths
TargetWidth == terminal_width - name_column_width - Margin

\* The description has a display width and it is within the width
Fits(desc, width) == wcswidth(desc) \in 0..width

AllFit == \A k \in 1..Len(hits) : Fits(hits[k].desc, TargetWidth)

OneLinePerRecord ==
    /\ Len(OutputLines) = Len(hits)
    /\ \A k \in 1..Len(hits) :
         /\ IsPrefix(label(hits[k]), OutputLines[k])
         /\ SeparatorAt(OutputLines[k]) # {}

\* The description the for loop is wrapping
CurrentDesc == hits[hit_index].desc

RECURSIVE total_len(_)
total_len(parts) == IF parts = <<>> THEN 0 ELSE Len(Head(parts)) + total_len(Tail(parts))

\* What was left of the description when wrapped line k was cut
RemainderAt(k) == py_tail(CurrentDesc, total_len(SubSeq(summary_lines, 1, k - 1)))

Wrapping == rpc \in {"wrap", "trim"} /\ wcswidth(CurrentDesc) >= 0

-----------------------------------------------------------------------------
(* C9: when every description fits within targetWidth, the output has one line per
   record, in input order, and " - " begins at the same display column in every
   line. *)
C9_OneLineSameColumn ==
    (rpc = "done" /\ AllFit)
        => /\ OneLinePerRecord
           /\ \A j, k \in 1..Len(hits) :
                SeparatorColumn(OutputLines[j]) = SeparatorColumn(OutputLines[k])

(* C9 as amended: the same, for records whose labels are not wider than the name
   column; the separator then begins at column nameColumnWidth. *)
C9_OneLineSameColumnWhenLabelsFit ==
    (rpc = "done" /\ AllFit
     /\ \A k \in 1..Len(hits) : wcswidth(label(hits[k])) <= name_column_width)
        => /\ OneLinePerRecord
           /\ \A k \in 1..Len(hits) : SeparatorColumn(OutputLines[k]) = name_column_width

C9_Witness ==
    /\ rpc = "done"
    /\ AllFit
    /\ Len(hits) = 2
    /\ hits[1].name = <<"W">>
    /\ hits[2].name = <<"a">>
    /\ hits[1].desc = <<"a", "W">>
    /\ arg_name_column_width = Some(9)
    /\ target_width > WrapThreshold
    /\ Len(OutputLines) = 2

(* C10: when targetWidth > 10, every wrapped line but the last is the longest prefix
   of the not-yet-consumed description whose display width does not exceed
   targetWidth, and no wrapped line is wider than targetWidth. *)
C10_LongestPrefix ==
    /\ Wrapping =>
          \A k \in 1..Len(summary_lines) :
             /\ IsPrefix(summary_lines[k], RemainderAt(k))
             /\ wcswidth(summary_lines[k]) <= target_width
             /\ \A n \in (Len(summary_lines[k]) + 1)..Len(RemainderAt(k)) :
                  wcswidth(py_head(RemainderAt(k), n)) > target_width
    /\ target_width > WrapThreshold =>
          \A k \in 1..Len(summary_lines) : wcswidth(summary_lines[k]) <= target_width

(* C10 as amended: every wrapped line but the last is the longest prefix of at most
   targetWidth characters of the not-yet-consumed description whose display width
   does not exceed targetWidth, and no wrapped line is wider than targetWidth. *)
C10_LongestPrefixOfTargetChars ==
    /\ Wrapping =>
          \A k \in 1..Len(summary_lines) :
             /\ IsPrefix(summary_lines[k], RemainderAt(k))
             /\ wcswidth(summary_lines[k]) <= target_width
             /\ Len(summary_lines[k]) <= target_width
             /\ \A n \in (Len(summary_lines[k]) + 1)..Min(Len(RemainderAt(k)), target_width) :
                  wcswidth(py_head(RemainderAt(k), n)) > target_width
    /\ target_width > WrapThreshold =>
          \A k \in 1..Len(summary_lines) : wcswidth(summary_lines[k]) <= target_width

C10_Witness ==
    /\ rpc = "done"
    /\ target_width > WrapThreshold
    /\ Len(summary_lines) >= 3
    /\ Len(summary_lines[1]) = target_width
    /\ Len(summary_lines[2]) < target_width
    /\ \E k \in 1..Len(hits[1].desc) : hits[1].desc[k] = "W"

-----------------------------------------------------------------------------
(* One record rendered on its own, as a function of the record and the two widths *)

\* The greatest n <= width such that the first n characters of s fit in the width
LongestFit(s, width) ==
    LET fit == {n \in 0..Min(width, Len(s)) : wcswidth(SubSeq(s, 1, n)) <= width}
    IN  CHOOSE n \in fit : \A k \in fit : k <= n

RECURSIVE WrappedAlone(_, _)
WrappedAlone(s, width) ==
    IF wcswidth(s) <= width THEN <<s>>
    ELSE LET n == LongestFit(s, width)
         IN  <<SubSeq(s, 1, n)>> \o WrappedAlone(SubSeq(s, n + 1, Len(s)), width)

TextAlone(hit, ncw, tw) ==
    IF tw - ncw - Margin > WrapThreshold
    THEN join(<<NL>> \o spaces(ncw + Indent), WrappedAlone(hit.desc, tw - ncw - Margin))
    ELSE hit.desc

RenderedAlone(hit, ncw, tw) ==
    label(hit) \o spaces(ncw - wcswidth(label(hit))) \o <<" ", "-", " ">>
        \o TextAlone(hit, ncw, tw)

IsSuffix(p, s) == Len(p) <= Len(s) /\ SubSeq(s, Len(s) - Len(p) + 1, Len(s)) = p

\* The part of the line of record k that precedes the description
HeadOfLine(k) == SubSeq(lines[k], 1, Len(lines[k]) - Len(hits[k].desc))

-----------------------------------------------------------------------------
(* C11: when targetWidth is at most 10, zero and negative values included, every
   description is emitted unchanged on the line of its label, neither split nor
   indented, whatever its length. *)
C11_NarrowNeverWraps ==
    (rpc = "done" /\ hits # <<>> /\ TargetWidth <= WrapThreshold)
        => /\ Len(lines) = Len(hits)
           /\ output = join(<<NL>>, lines)
           /\ \A k \in 1..Len(hits) :
                /\ IsSuffix(hits[k].desc, lines[k])
                /\ IsPrefix(label(hits[k]), HeadOfLine(k))
                /\ IsSuffix(<<" ", "-", " ">>, HeadOfLine(k))
                /\ \A n \in 1..Len(HeadOfLine(k)) : HeadOfLine(k)[n] # NL

C11_Witness ==
    /\ rpc = "done"
    /\ Len(hits) = 1
    /\ target_width = 0
    /\ wcswidth(hits[1].desc) > 2 * WrapThreshold
    /\ IsSuffix(hits[1].desc, output)

(* C12: a record whose label is wider than nameColumnWidth is rendered whole, the
   label followed directly by " - " with no padding, and the other records of the
   call are rendered as they are on their own. *)
C12_WideLabelOverflows ==
    (rpc = "done" /\ hits # <<>>)
        => /\ Len(lines) = Len(hits)
           /\ output = join(<<NL>>, lines)
           /\ \A k \in 1..Len(hits) :
                /\ lines[k] = RenderedAlone(hits[k], name_column_width, terminal_width)
                /\ wcswidth(label(hits[k])) > name_column_width
                      => IsPrefix(label(hits[k]) \o <<" ", "-", " ">>, lines[k])

C12_Witness ==
    /\ rpc = "done"
    /\ Len(hits) = 2
    /\ wcswidth(label(hits[1])) > name_column_width
    /\ wcswidth(label(hits[2])) = name_column_width
    /\ hits[1].desc # <<>>
    /\ hits[2].desc # <<>>

(* C13: an empty record sequence gives the empty string, whichever widths are passed
   or omitted, and neither the terminal width is queried nor a column width
   computed. *)
C13_EmptyGivesEmpty ==
    (rpc = "done" /\ hits = <<>>)
        => /\ output = <<>>
           /\ terminal_queries = 0
           /\ name_column_width = 0
           /\ terminal_width = 0
           /\ lines = <<>>

C13_Witness ==
    /\ rpc = "done"
    /\ hits = <<>>
    /\ arg_name_column_width = None
    /\ arg_terminal_width = None
    /\ output = <<>>

-----------------------------------------------------------------------------
(* C14: once the call has returned a result, the completion of a request that was
   still outstanding, with valid data, other valid data or an error, changes neither
   the result nor the cache entry, and adds nothing to the errors the caller can
   see. *)
C14_LateCompletionsChangeNothing ==
    [][(Success /\ calls' = calls)
          => /\ pc' = pc
             /\ result' = result
             /\ cache' = cache
             /\ error' = error
             /\ exceptions' = exceptions
             /\ taken' = taken]_vars

C14_Witness ==
    /\ Success
    /\ taken = 1
    /\ Len(completed) = Cardinality(Mirrors)
    /\ ValidArray(tasks[completed[2]].outcome)
    /\ tasks[completed[2]].outcome.body # tasks[Winner].outcome.body
    /\ tasks[completed[3]].outcome.kind = "error"
    /\ result = RecordsOf(module_class, tasks[Winner].outcome.body.items)
    /\ cache[module_type] = [hit |-> TRUE, value |-> result]
    /\ exceptions = <<>>

(* C15: a call for a recognized category ends either with a non-empty list of records
   of the class of the category or with the failure carrying the errors of the
   mirrors; it never succeeds with an empty list. *)
C15_NeverEmptySuccess ==
    Ran =>
        \/ /\ pc = "returned"
           /\ result # <<>>
           /\ \A i \in 1..Len(result) : result[i].cls = ClassOf(module_type)
        \/ /\ Aggregate
           /\ Len(error.causes) = Cardinality(Mirrors)

(* C15, amended: a call for a recognized category ends either with one record of the
   class of the category per element of the body it took, in the order of the body,
   so with the empty list when that body has no element, or with the failure
   carrying one error per mirror. *)
C15_RecordPerElementOrAggregate ==
    Ran =>
        \/ /\ pc = "returned"
           /\ taken \in 1..Len(completed)
           /\ tasks[Winner].outcome.kind = "response"
           /\ Len(result) = Len(tasks[Winner].outcome.body.items)
           /\ \A i \in 1..Len(result) :
                /\ result[i].cls = ClassOf(module_type)
                /\ result[i].name = tasks[Winner].outcome.body.items[i].name
           /\ (result = <<>>) = (tasks[Winner].outcome.body.items = <<>>)
        \/ /\ Aggregate
           /\ Len(error.causes) = Cardinality(Mirrors)
           /\ \A m \in Mirrors : \E i \in 1..Len(error.causes) : error.causes[i].mirror = m

C15_Witness ==
    /\ Success
    /\ module_type = "plugin"
    /\ taken = 2
    /\ result = <<>>
    /\ tasks[Winner].outcome.status = 200
    /\ tasks[Winner].outcome.body = [t |-> "array", items |-> <<>>]
    /\ Len(exceptions) = 1

-----------------------------------------------------------------------------
(* Vocabulary of the properties of the wrapped lines *)

\* The lines the text of record k is printed on
Pieces(k) == split_lines(lines[k], <<>>)

\* The description of record k has a display width
Printable(k) == wcswidth(hits[k].desc) >= 0

LabelFits(k) == wcswidth(label(hits[k])) <= name_column_width

\* The characters of record k's first line before its text: label, padding and " - "
HeadLen(k) ==
    Len(label(hits[k])) + Max(name_column_width - wcswidth(label(hits[k])), 0) + Indent

\* The text of line j of record k, without what precedes it on the line
PieceText(k, j) ==
    LET piece == Pieces(k)[j]
        skip == IF j = 1 THEN HeadLen(k) ELSE name_column_width + Indent
    IN  SubSeq(piece, skip + 1, Len(piece))

(* C16: when the descriptions are wrapped, every continuation line of a record whose
   label fits in the name column starts with exactly nameColumnWidth + 3 spaces, the
   display column at which the text starts on the first line, right after " - ". *)
C16_ContinuationAligned ==
    (rpc = "done" /\ hits # <<>> /\ TargetWidth > WrapThreshold)
        => /\ Len(lines) = Len(hits)
           /\ \A k \in 1..Len(hits) :
                (LabelFits(k) /\ Printable(k)) =>
                    /\ wcswidth(SubSeq(Pieces(k)[1], 1, HeadLen(k))) = name_column_width + Indent
                    /\ SubSeq(Pieces(k)[1], HeadLen(k) - Indent + 1, HeadLen(k))
                          = <<" ", "-", " ">>
                    /\ \A j \in 2..Len(Pieces(k)) :
                         LET piece == Pieces(k)[j]
                         IN  /\ IsPrefix(spaces(name_column_width + Indent), piece)
                             /\ Len(piece) > name_column_width + Indent
                             /\ piece[name_column_width + Indent + 1] # " "

C16_Witness ==
    /\ rpc = "done"
    /\ Len(hits) = 2
    /\ TargetWidth > WrapThreshold
    /\ LabelFits(1) /\ LabelFits(2)
    /\ wcswidth(label(hits[1])) < name_column_width
    /\ Len(Pieces(1)) = 2
    /\ Len(Pieces(2)) = 2

(* C17: wrapping loses nothing: the wrapped lines of a description, put together in
   order without the line breaks and the indentation between them, are the
   description. *)
C17_WrappingLosesNothing ==
    /\ Wrapping => join(<<>>, summary_lines) \o summary = CurrentDesc
    /\ (rpc = "done" /\ hits # <<>> /\ TargetWidth > WrapThreshold)
          => /\ Len(lines) = Len(hits)
             /\ \A k \in 1..Len(hits) :
                  IF Printable(k)
                  THEN join(<<>>, [j \in 1..Len(Pieces(k)) |-> PieceText(k, j)]) = hits[k].desc
                  ELSE IsSuffix(hits[k].desc, lines[k])

C17_Witness ==
    /\ rpc = "done"
    /\ Len(hits) = 1
    /\ TargetWidth > WrapThreshold
    /\ Len(Pieces(1)) >= 3
    /\ \E n \in 1..Len(hits[1].desc) : hits[1].desc[n] = "z"
    /\ \E n \in 1..Len(hits[1].desc) : hits[1].desc[n] = "W"
    /\ join(<<>>, summary_lines) = hits[1].desc

(* C18: the wrapping loop ends for every description and every targetWidth above 10:
   the inner loop stops at a prefix of at least one character, every pass of the
   outer loop takes a non-empty prefix off the description, so that what is left of
   it gets strictly shorter until it fits and the loop is left. *)
C18_WrapLoopTerminates ==
    [][/\ rpc = "trim" => /\ tmp_length \in 1..target_width
                          /\ target_width > WrapThreshold
                          /\ py_head(summary, tmp_length) # <<>>
                          /\ rpc' \in {"trim", "wrap"}
       /\ (rpc = "trim" /\ rpc' = "trim")
             => /\ tmp_length' = tmp_length - 1
                /\ summary' = summary
       /\ (rpc = "trim" /\ rpc' = "wrap")
             => /\ Len(summary') < Len(summary)
                /\ summary_lines'[Len(summary_lines')] # <<>>
                /\ Len(summary_lines') = Len(summary_lines) + 1
       /\ (rpc = "wrap" /\ rpc' = "trim")
             => /\ overflows(summary, target_width)
                /\ summary' = summary
       /\ (rpc = "wrap" /\ ~overflows(summary, target_width))
             => rpc' \in {"hit", "done"}]_vars

C18_Witness ==
    /\ rpc = "trim"
    /\ Len(summary_lines) = 2
    /\ tmp_length = (target_width + 1) \div 2
    /\ summary[1] = "W"
    /\ ~overflows(py_head(summary, tmp_length), target_width)

-----------------------------------------------------------------------------
\* The mirrors whose completion the loop has processed
Processed == {completed[i] : i \in 1..taken}

(* C19: for a recognized category, when each of the three requests completes, the
   call ends, with a result or with the aggregate; the completion of a mirror is
   processed at most once and the call never waits for a mirror it has processed. *)
C19_FetchTerminates ==
    /\ [](module_type \in ModuleTypes =>
            /\ taken \in 0..Len(completed)
            /\ Len(completed) <= Cardinality(Mirrors)
            /\ Cardinality(Processed) = taken
            /\ \A m \in Processed : Done(m)
            /\ \A m \in Mirrors :
                 Cardinality({i \in 1..Len(exceptions) : exceptions[i].mirror = m})
                    <= (IF m \in Processed THEN 1 ELSE 0))
    /\ [][taken' # taken =>
            /\ taken' = taken + 1
            /\ pc = "running"
            /\ completed[taken'] \notin Processed
            /\ Done(completed[taken'])]_vars
    /\ (pc = "running") ~> (pc \in {"returned", "raised"})

C19_Witness ==
    /\ Aggregate
    /\ completed = <<2, 3, 1>>
    /\ Processed = Mirrors
    /\ Len(error.causes) = Cardinality(Mirrors)
    /\ tasks[2].outcome.body.t = "scalar"

====
